---- MODULE Spec2Model ----
(***************************************************************************)
(* Ball-by-ball cricket scoring: CurrentScore, Innings and Match of the    *)
(* cricket_scoring crate, as state machines.                               *)
(*                                                                         *)
(* Rust values are modelled as follows.                                    *)
(*   Option<T>   : <<>> is None, <<x>> is Some(x).                         *)
(*   String      : a sequence of characters; a multi-character token       *)
(*                 stands for a run of characters that no other string of   *)
(*                 the model splits, so str::contains is sub-sequence       *)
(*                 containment.                                             *)
(*   Vec<T>      : a sequence, 1-based here; the usize indices on_strike    *)
(*                 and off_strike keep the 0-based values of the code.      *)
(***************************************************************************)
EXTENDS Integers, Sequences, FiniteSets, TLC

VARIABLES
    score,          \* a CurrentScore driven directly (score.rs)
    tally,          \* history of the deliveries scored on `score`
    innings,        \* an Innings (innings.rs)
    call,           \* the last operation called on `innings`: "new", "score_ball" or "over"
    ball_outcome,   \* Some(the BallOutcome of that call) if it was score_ball, else None
    before,         \* `innings` as it was before that call
    panicked,       \* an expect() of Innings::score_ball failed
    calls,          \* number of score_ball calls made on `innings`
    history,        \* what those calls were given: deliveries neither wide nor
                    \* no-ball, penalty runs, and whether every bowler was in the roster
    cricket_match,  \* a Match (match.rs)
    match_call,     \* the last operation called on `cricket_match`
    match_before,   \* `cricket_match` as it was before that call
    match_repeat,   \* that call repeated the operation called just before it
    returned,       \* Some(what that call returned) if it was is_innings_victory
    match_arg,      \* Some(the argument of that call), a pair if it took two
    added,          \* the arguments of the add_innings calls, in call order
    ball_events,    \* the Vec<BallEvents> handed to BallOutcome::new (ball.rs)
    new_outcome,    \* Some(the BallOutcome it built), None before the call
    validation,     \* Some(what validate() returned on it), None before the call
    cricsheet_innings,  \* a CricsheetInnings record (cricsheet/mod.rs)
    states,         \* Some(what process_innings_with_states returned on it)
    processed       \* how each of the two functions left: "no" before its call,
                    \* then "returned" or "panicked"

score_vars   == <<score, tally>>
innings_vars == <<innings, call, ball_outcome, before, panicked, calls, history>>
match_vars   == <<cricket_match, match_call, match_before, match_repeat, returned,
                  match_arg, added>>
ball_vars    == <<ball_events, new_outcome, validation>>
cricsheet_vars == <<cricsheet_innings, states, processed>>
vars == <<score, tally, innings, call, ball_outcome, before, panicked, calls,
          history, cricket_match, match_call, match_before, match_repeat,
          returned, match_arg, added, ball_events, new_outcome, validation,
          cricsheet_innings, states, processed>>

----------------------------------------------------------------------------
(* Bounds *)

MaxScoreBalls == 2      \* score_ball calls on the stand-alone CurrentScore
MaxBalls == 2           \* score_ball calls on the Innings
MaxOvers == 1           \* over() calls on either
MaxCollapseBalls == 10  \* score_ball calls on the Innings of a full side
MaxRecordOvers == 2     \* overs of a CricsheetInnings record
MaxOverDeliveries == 2  \* deliveries of one of its overs
MaxInnings == 3         \* innings added to the Match
MaxApiInnings == 4      \* innings added to the Match when every operation is called
MaxEvents == 4          \* events handed to BallOutcome::new

----------------------------------------------------------------------------
(* Option and String *)

None == <<>>
Some(x) == <<x>>
is_some(o) == o # <<>>
is_none(o) == o = <<>>
unwrap(o) == o[1]
Opt(S) == {None} \cup {Some(x) : x \in S}

\* str::contains
contains(hay, needle) ==
    \E i \in 0..(Len(hay) - Len(needle)) :
        SubSeq(hay, i + 1, i + Len(needle)) = needle

\* the element of a one-element set; `the({e(x) : x \in {v}})` is e of v with
\* v worked out once
the(S) == CHOOSE x \in S : TRUE

RECURSIVE SumSeq(_)
SumSeq(s) == IF s = <<>> THEN 0 ELSE Head(s) + SumSeq(Tail(s))

\* Iterator::position over the per-element test results: 0-based index of the first hit, -1 if none
position(hits) ==
    IF \E i \in 1..Len(hits) : hits[i]
    THEN (CHOOSE i \in 1..Len(hits) : hits[i] /\ \A j \in 1..(i - 1) : ~hits[j]) - 1
    ELSE -1

----------------------------------------------------------------------------
(* ball.rs *)

RETIRED == <<"retired">>
RETIRED_OUT == <<"retired", " ", "out">>
RETIRED_HURT == <<"retired", " ", "hurt">>
BOWLED == <<"bowled">>
RUN_OUT == <<"run", " ", "out">>

Wicket(player_out, kind) == [player_out |-> player_out, kind |-> kind]

BallOutcome(runs, wicket, no_ball, wide, byes, leg_byes, four, six, on_strike, off_strike, bowler, penalty) ==
    [runs |-> runs, wicket |-> wicket, no_ball |-> no_ball, wide |-> wide,
     byes |-> byes, leg_byes |-> leg_byes, free_hit |-> FALSE,
     four |-> four, six |-> six,
     on_strike |-> on_strike, off_strike |-> off_strike, bowler |-> bowler,
     penalty |-> penalty]

\* BallEvents
Bye(x) == [event |-> "Bye", x |-> x]
LegBye(x) == [event |-> "LegBye", x |-> x]
NoBall(x) == [event |-> "NoBall", x |-> x]
WicketEvent(wickets) == [event |-> "Wicket", wickets |-> wickets]
Wide(x) == [event |-> "Wide", x |-> x]
Penalty(x) == [event |-> "Penalty", x |-> x]
Four == [event |-> "Four"]
Six == [event |-> "Six"]

\* ball.rs 57-68: the events in list order, a later one overwriting an earlier
RECURSIVE apply_events(_, _)
apply_events(outcome, events) ==
    IF events = <<>> THEN outcome
    ELSE LET e == Head(events)
         IN  apply_events(
                CASE e.event = "Bye" -> [outcome EXCEPT !.byes = Some(e.x)]
                  [] e.event = "LegBye" -> [outcome EXCEPT !.leg_byes = Some(e.x)]
                  [] e.event = "NoBall" -> [outcome EXCEPT !.no_ball = Some(e.x)]
                  [] e.event = "Wicket" -> [outcome EXCEPT !.wicket = Some(e.wickets)]
                  [] e.event = "Wide" -> [outcome EXCEPT !.wide = Some(e.x)]
                  [] e.event = "Four" -> [outcome EXCEPT !.four = TRUE]
                  [] e.event = "Six" -> [outcome EXCEPT !.six = TRUE]
                  [] e.event = "Penalty" -> [outcome EXCEPT !.penalty = Some(e.x)],
                Tail(events))

BallOutcome_new(runs, events, on_strike, off_strike, bowler) ==
    apply_events(BallOutcome(runs, None, None, None, None, None, FALSE, FALSE,
                             on_strike, off_strike, bowler, None),
                 events)

\* Result<(), BallOutcomeValidation>
Ok == [ok |-> TRUE]
DoubleOutcome(first, second) ==
    [ok |-> FALSE, error |-> "DoubleOutcome", first |-> first, second |-> second]

\* faulty variant: byes with leg-byes are looked for first
validate_byes_first(self) ==
    IF is_some(self.byes) /\ is_some(self.leg_byes)
    THEN DoubleOutcome("Bye", "Leg Bye")
    ELSE IF self.four /\ self.six
    THEN DoubleOutcome("Four", "Six")
    ELSE Ok

validate(self) ==
    IF self.four /\ self.six
    THEN DoubleOutcome("Four", "Six")
    ELSE IF is_some(self.byes) /\ is_some(self.leg_byes)
    THEN DoubleOutcome("Bye", "Leg Bye")
    ELSE Ok

----------------------------------------------------------------------------
(* score.rs *)

WICKETS == 10

CurrentScore_new ==
    [wickets_left |-> WICKETS, wickets_lost |-> 0, runs |-> 0, leg_byes |-> 0,
     byes |-> 0, wides |-> 0, no_balls |-> 0, over |-> 0, ball |-> 0]

\* faulty variant: no retirement costs a wicket
counts_unless_retired(kind) == ~contains(kind, RETIRED)

\* the dismissal kinds that cost a wicket
counts_as_wicket(kind) == kind = RETIRED_OUT \/ ~contains(kind, RETIRED)

wickets_counted(b) ==
    IF is_some(b.wicket)
    THEN Cardinality({i \in 1..Len(unwrap(b.wicket)) :
                          counts_as_wicket(unwrap(b.wicket)[i].kind)})
    ELSE 0

\* faulty variant: the runs taken on a wide are left out of the wides
wides_added_without_runs(b) == IF is_some(b.wide) THEN unwrap(b.wide) ELSE 0

wides_added(b) == IF is_some(b.wide) THEN unwrap(b.wide) + b.runs ELSE 0

\* faulty variant: penalty runs are not added to the total
runs_added_without_penalty(b) ==
    b.runs
    + (IF is_some(b.wide) THEN unwrap(b.wide) ELSE 0)
    + (IF is_some(b.no_ball) THEN unwrap(b.no_ball) ELSE 0)
    + (IF is_some(b.byes) THEN unwrap(b.byes) ELSE 0)
    + (IF is_some(b.leg_byes) THEN unwrap(b.leg_byes) ELSE 0)

runs_added(b) ==
    b.runs
    + (IF is_some(b.wide) THEN unwrap(b.wide) ELSE 0)
    + (IF is_some(b.no_ball) THEN unwrap(b.no_ball) ELSE 0)
    + (IF is_some(b.byes) THEN unwrap(b.byes) ELSE 0)
    + (IF is_some(b.leg_byes) THEN unwrap(b.leg_byes) ELSE 0)
    + (IF is_some(b.penalty) THEN unwrap(b.penalty) ELSE 0)

\* faulty variant: a delivery takes one wicket off wickets_left however many fall
CurrentScore_score_ball_one_wicket(self, b) ==
    [self EXCEPT
        !.ball = IF is_none(b.wide) /\ is_none(b.no_ball) THEN @ + 1 ELSE @,
        !.runs = @ + runs_added(b),
        !.wickets_lost = @ + wickets_counted(b),
        !.wickets_left = @ - (IF wickets_counted(b) > 0 THEN 1 ELSE 0),
        !.wides = @ + wides_added(b),
        !.no_balls = @ + (IF is_some(b.no_ball) THEN unwrap(b.no_ball) ELSE 0),
        !.byes = @ + (IF is_some(b.byes) THEN unwrap(b.byes) ELSE 0),
        !.leg_byes = @ + (IF is_some(b.leg_byes) THEN unwrap(b.leg_byes) ELSE 0)]

CurrentScore_score_ball(self, b) ==
    [self EXCEPT
        !.ball = IF is_none(b.wide) /\ is_none(b.no_ball) THEN @ + 1 ELSE @,
        !.runs = @ + runs_added(b),
        !.wickets_lost = @ + wickets_counted(b),
        !.wickets_left = @ - wickets_counted(b),
        !.wides = @ + wides_added(b),
        !.no_balls = @ + (IF is_some(b.no_ball) THEN unwrap(b.no_ball) ELSE 0),
        !.byes = @ + (IF is_some(b.byes) THEN unwrap(b.byes) ELSE 0),
        !.leg_byes = @ + (IF is_some(b.leg_byes) THEN unwrap(b.leg_byes) ELSE 0)]

CurrentScore_over(self) == [self EXCEPT !.over = @ + 1, !.ball = 0]

----------------------------------------------------------------------------
(* player.rs *)

Player_new(name) ==
    [name |-> name, runs |-> 0, balls_faced |-> 0, fours |-> 0, sixes |-> 0,
     out |-> FALSE, dismissal |-> None,
     balls_bowled |-> 0, runs_conceded |-> 0, wickets_taken |-> 0,
     maidens |-> 0, wides |-> 0, no_balls |-> 0]

Team(name, names) ==
    [players |-> [i \in 1..Len(names) |-> Player_new(names[i])], name |-> name]

\* Team::get_player_index, 0-based, -1 for None
get_player_index(team, player_name) ==
    position([i \in 1..Len(team.players) |-> team.players[i].name = player_name])

----------------------------------------------------------------------------
(* innings.rs *)

Innings_new(batting_team, bowling_team) ==
    [score |-> CurrentScore_new, batting_team |-> batting_team,
     bowling_team |-> bowling_team, on_strike |-> 0, off_strike |-> 1,
     finished |-> FALSE]

\* faulty variant: a new over reopens the innings
Innings_over_reopening(self) ==
    [self EXCEPT !.score = CurrentScore_over(@),
                 !.on_strike = self.off_strike, !.off_strike = self.on_strike,
                 !.finished = FALSE]

\* faulty variant: the batters stay where they are at the end of the over
Innings_over_without_swap(self) == [self EXCEPT !.score = CurrentScore_over(@)]

Innings_over(self) ==
    [self EXCEPT !.score = CurrentScore_over(@),
                 !.on_strike = self.off_strike,
                 !.off_strike = self.on_strike]

max(a, b) == IF a >= b THEN a ELSE b

\* faulty variant: only a wide is taken for an illegal delivery
legal_delivery_unless_wide(b) == is_none(b.wide)

legal_delivery(b) == is_none(b.wide) /\ is_none(b.no_ball)
off_the_bat(b) == legal_delivery(b) /\ is_none(b.byes) /\ is_none(b.leg_byes)

\* faulty variant: the runs of a bye or leg-bye delivery go to the striker
update_striker_crediting_byes(striker, b) ==
    [striker EXCEPT
        !.balls_faced = IF legal_delivery(b) THEN @ + 1 ELSE @,
        !.runs = IF legal_delivery(b) THEN @ + b.runs ELSE @,
        !.fours = IF off_the_bat(b) /\ b.four THEN @ + 1 ELSE @,
        !.sixes = IF off_the_bat(b) /\ b.six THEN @ + 1 ELSE @]

\* innings.rs 61-75: the striker's batting figures
update_striker(striker, b) ==
    [striker EXCEPT
        !.balls_faced = IF legal_delivery(b) THEN @ + 1 ELSE @,
        !.runs = IF off_the_bat(b) THEN @ + b.runs ELSE @,
        !.fours = IF off_the_bat(b) /\ b.four THEN @ + 1 ELSE @,
        !.sixes = IF off_the_bat(b) /\ b.six THEN @ + 1 ELSE @]

\* faulty variant: wides and no-balls count as balls bowled
update_bowler_counting_every_ball(bowler, b) ==
    [bowler EXCEPT
        !.balls_bowled = @ + 1,
        !.runs_conceded = @ + b.runs,
        !.wickets_taken = IF is_some(b.wicket) THEN @ + Len(unwrap(b.wicket)) ELSE @,
        !.wides = IF is_some(b.wide) THEN @ + 1 ELSE @,
        !.no_balls = IF is_some(b.no_ball) THEN @ + 1 ELSE @]

\* faulty variant: the bowler gets the dismissals that cost a wicket only
update_bowler_counted_wickets(bowler, b) ==
    [bowler EXCEPT
        !.balls_bowled = IF legal_delivery(b) THEN @ + 1 ELSE @,
        !.runs_conceded = @ + b.runs,
        !.wickets_taken = @ + wickets_counted(b),
        !.wides = IF is_some(b.wide) THEN @ + 1 ELSE @,
        !.no_balls = IF is_some(b.no_ball) THEN @ + 1 ELSE @]

\* innings.rs 84-103: the bowler's figures
update_bowler(bowler, b) ==
    [bowler EXCEPT
        !.balls_bowled = IF legal_delivery(b) THEN @ + 1 ELSE @,
        !.runs_conceded = @ + b.runs,
        !.wickets_taken = IF is_some(b.wicket) THEN @ + Len(unwrap(b.wicket)) ELSE @,
        !.wides = IF is_some(b.wide) THEN @ + 1 ELSE @,
        !.no_balls = IF is_some(b.no_ball) THEN @ + 1 ELSE @]

\* innings.rs 78-83: iter_mut().find(..) on the bowling team; no bowler of that
\* name leaves the team as it is
update_bowling_team(team, b) ==
    LET i == get_player_index(team, b.bowler.name)
    IN  IF i = -1 THEN team
        ELSE [team EXCEPT !.players[i + 1] = update_bowler(@, b)]

\* innings.rs 106-108.  b.runs >= 0 in every delivery of the model, where
\* Rust's % and TLA+'s agree.
\* faulty variant: the parity of all the runs of the delivery decides
rotates_strike_on_total(b) == runs_added(b) % 2 = 1

rotates_strike(b) == b.runs % 2 = 1

\* innings.rs 113-117: the roster position of the player a dismissal names
out_player_index(team, wicket) ==
    position([i \in 1..Len(team.players) |-> contains(wicket.player_out, team.players[i].name)])

\* faulty variant: the player is marked out, the kind is not recorded
mark_out_without_kind(out_player, wicket) == [out_player EXCEPT !.out = TRUE]

\* innings.rs 120-122
mark_out(out_player, wicket) ==
    [out_player EXCEPT !.out = TRUE, !.dismissal = Some(wicket.kind)]

\* faulty variant: the batter already furthest down the order comes in
next_batter_at_max(self) == max(self.on_strike, self.off_strike)

\* innings.rs 126 and 128: the roster index of the batter who comes in
next_batter(self) == max(self.on_strike, self.off_strike) + 1

\* innings.rs 111-130: the dismissals in list order.  st is
\* [innings, panicked]; a failed expect() stops the loop where it is.
RECURSIVE process_wickets(_, _)
process_wickets(st, wickets) ==
    IF wickets = <<>> \/ st.panicked THEN st
    ELSE LET self == st.innings
             i == out_player_index(self.batting_team, Head(wickets))
             next == next_batter(self)
         IN  IF i = -1 THEN [st EXCEPT !.panicked = TRUE]
             ELSE process_wickets(
                    [st EXCEPT
                       !.innings.batting_team.players[i + 1] =
                            mark_out(@, Head(wickets)),
                       !.innings.on_strike = IF i = self.on_strike THEN next ELSE @,
                       !.innings.off_strike = IF i = self.on_strike THEN @ ELSE next],
                    Tail(wickets))

\* faulty variant: the tracked indices are trusted
resync_never(self, striker_index, non_striker_index) == self

\* innings.rs 57-59
resync(self, striker_index, non_striker_index) ==
    [self EXCEPT !.on_strike = striker_index, !.off_strike = non_striker_index]

\* Innings::score_ball.  The result is [innings, panicked]: the Innings as the
\* call leaves it and whether it left by a panic.
Innings_score_ball(self, b) ==
    LET scored == [self EXCEPT !.score = CurrentScore_score_ball(@, b)]
        striker_index == get_player_index(self.batting_team, b.on_strike.name)
        non_striker_index == get_player_index(self.batting_team, b.off_strike.name)
    IN  IF striker_index = -1 \/ non_striker_index = -1
        THEN [innings |-> scored, panicked |-> TRUE]
        ELSE LET synced == resync(scored, striker_index, non_striker_index)
                 batted == [synced EXCEPT
                              !.batting_team.players[striker_index + 1] =
                                  update_striker(@, b)]
                 bowled == [batted EXCEPT
                              !.bowling_team = update_bowling_team(@, b)]
                 rotated == IF rotates_strike(b)
                            THEN [bowled EXCEPT !.on_strike = bowled.off_strike,
                                                !.off_strike = bowled.on_strike]
                            ELSE bowled
             IN  process_wickets([innings |-> rotated, panicked |-> FALSE],
                                 IF is_some(b.wicket) THEN unwrap(b.wicket) ELSE <<>>)

----------------------------------------------------------------------------
(* match.rs *)

\* `as u32` and `as u8` on an i32: the value modulo 2^32 and modulo 2^8
as_u32(x) == IF x >= 0 THEN x ELSE x + 65536 * 65536
as_u8(x) == x % 256

Runs(n) == [margin |-> "Runs", n |-> n]
Wickets(n) == [margin |-> "Wickets", n |-> n]
Award == [margin |-> "Award"]

Team1Won(margin, method) == [result |-> "Team1Won", margin |-> margin, method |-> method]
Team2Won(margin, method) == [result |-> "Team2Won", margin |-> margin, method |-> method]
Tie(method) == [result |-> "Tie", method |-> method]
Draw == [result |-> "Draw"]
NoResult == [result |-> "NoResult"]

Match_new(team1, team2) ==
    [team1 |-> team1, team2 |-> team2, innings |-> <<>>,
     status |-> "NotStarted", result |-> None]

\* faulty variant: the newest innings goes to the front of the list
Match_add_innings_in_front(self, inn) == [self EXCEPT !.innings = <<inn>> \o @]

Match_add_innings(self, inn) == [self EXCEPT !.innings = Append(@, inn)]

Match_set_status(self, status) == [self EXCEPT !.status = status]

Match_set_result(self, result) ==
    [self EXCEPT !.result = Some(result), !.status = "Completed"]

\* faulty variant: the result is stored with the method it came with
Match_set_result_with_its_method(self, result, method) ==
    [self EXCEPT !.result = Some(result), !.status = "Completed"]

Match_set_result_with_method(self, result, method) ==
    Match_set_result(self,
        CASE result.result = "Team1Won" -> Team1Won(result.margin, method)
          [] result.result = "Team2Won" -> Team2Won(result.margin, method)
          [] result.result = "Tie" -> Tie(method)
          [] OTHER -> result)

\* the runs of the innings batted by the team of that name, in order
innings_runs(self, team_name) ==
    LET of_team == SelectSeq(self.innings, LAMBDA i : i.batting_team.name = team_name)
    IN  [k \in 1..Len(of_team) |-> of_team[k].score.runs]

team1_total_runs(self) == SumSeq(innings_runs(self, self.team1.name))
team2_total_runs(self) == SumSeq(innings_runs(self, self.team2.name))

\* the keys of the HashMap of match.rs 387-392 and of 272-292
batting_teams(self) == {self.innings[k].batting_team.name : k \in 1..Len(self.innings)}

innings_count(self, team_name) == Len(innings_runs(self, team_name))

\* faulty variant: any third innings of two teams makes an innings victory
is_innings_victory_on_length(self) ==
    Len(self.innings) >= 3 /\ Cardinality(batting_teams(self)) = 2

is_innings_victory(self) ==
    IF Len(self.innings) < 3 THEN FALSE
    ELSE /\ Cardinality(batting_teams(self)) = 2
         /\ \E a, b \in batting_teams(self) :
                a # b /\ innings_count(self, a) # innings_count(self, b)

\* scores.get(name).unwrap_or(&vec![]).iter().sum()
score_sum(self, team_name) == SumSeq(innings_runs(self, team_name))

calculate_win_margin(self, winning_team, losing_team, batting_team, last_innings_wickets_left) ==
    IF is_innings_victory(self)
    THEN Runs(as_u32(score_sum(self, winning_team) - score_sum(self, losing_team)))
    ELSE IF winning_team = batting_team
    THEN Wickets(as_u8(last_innings_wickets_left))
    ELSE Runs(as_u32(score_sum(self, winning_team) - score_sum(self, losing_team)))

\* faulty variant: a win goes down as no result
won_by_nobody(self, team, margin) == NoResult

\* match.rs 329-333 and 344-348
won_by(self, team, margin) ==
    IF team = self.team1.name THEN Team1Won(margin, None) ELSE Team2Won(margin, None)

\* faulty variant: two innings finish a match, whoever batted in them
not_finished_by_innings(self) == Len(self.innings) < 2

\* match.rs 295: fewer than two teams have batted
not_finished(self) == Cardinality(batting_teams(self)) < 2

\* faulty variant: being behind is enough, all out or not
is_draw_ignoring_wickets(self, batting_team, bowling_team, last_innings_wickets_left) ==
    score_sum(self, batting_team) < score_sum(self, bowling_team)

\* match.rs 297-307: the side batting last is behind with wickets in hand
is_draw(self, batting_team, bowling_team, last_innings_wickets_left) ==
    /\ score_sum(self, batting_team) < score_sum(self, bowling_team)
    /\ last_innings_wickets_left > 0

\* match.rs 272-352: the result of a match that has innings
compute_result(self) ==
    LET last == self.innings[Len(self.innings)]
        batting_team == last.batting_team.name
        bowling_team == last.bowling_team.name
        last_innings_wickets_left == last.score.wickets_left
    IN  IF \/ not_finished(self)
           \/ is_draw(self, batting_team, bowling_team, last_innings_wickets_left)
        THEN [self EXCEPT !.result = Some(Draw), !.status = "Completed"]
        ELSE LET team_a == self.innings[1].batting_team.name
                 team_b == self.innings[2].batting_team.name
                 team_a_total == score_sum(self, team_a)
                 team_b_total == score_sum(self, team_b)
                 result ==
                   IF team_a_total > team_b_total
                   THEN won_by(self, team_a,
                            calculate_win_margin(self, team_a, team_b, batting_team,
                                                 last_innings_wickets_left))
                   ELSE IF team_a_total = team_b_total
                   THEN Tie(None)
                   ELSE won_by(self, team_b,
                            calculate_win_margin(self, team_b, team_a, batting_team,
                                                 last_innings_wickets_left))
             IN  [self EXCEPT !.result = Some(result), !.status = "Completed"]

\* faulty variant: a result that carries a method label is left as it is
Match_calculate_result_keeping_label(self) ==
    IF \/ self.innings = <<>>
       \/ /\ is_some(self.result)
          /\ unwrap(self.result).result \in {"Team1Won", "Team2Won", "Tie"}
          /\ is_some(unwrap(self.result).method)
    THEN self
    ELSE compute_result(self)

\* faulty variant: a match without innings is drawn
Match_calculate_result_of_nothing(self) ==
    IF self.innings = <<>>
    THEN [self EXCEPT !.result = Some(Draw), !.status = "Completed"]
    ELSE compute_result(self)

Match_calculate_result(self) ==
    IF self.innings = <<>> THEN self
    ELSE compute_result(self)

----------------------------------------------------------------------------
(* cricsheet/mod.rs *)

\* the fields of the records that the two functions read
PenaltyRuns(pre, post) == [pre |-> pre, post |-> post]
Extras(byes, legbyes, noballs, penalty, wides) ==
    [byes |-> byes, legbyes |-> legbyes, noballs |-> noballs, penalty |-> penalty, wides |-> wides]
Delivery(batter, bowler, non_striker, extras, runs, wickets) ==
    [batter |-> batter, bowler |-> bowler, non_striker |-> non_striker,
     extras |-> extras, runs |-> [batter |-> runs, non_boundary |-> None],
     wickets |-> wickets]
Over(deliveries) == [deliveries |-> deliveries]
CricsheetInnings(team, overs, penalty_runs) ==
    [team |-> team, overs |-> overs, penalty_runs |-> penalty_runs]

\* Option::unwrap_or_default on an Option<i32> or an Option<Vec<_>>
unwrap_or_default(o, default) == IF is_some(o) THEN unwrap(o) ELSE default

\* mod.rs 303-347: the events of a delivery, in the order they are pushed
parse_events(self) ==
    LET e == unwrap(self.extras)
        boundary(n) == self.runs.batter = n
                          /\ ~unwrap_or_default(self.runs.non_boundary, FALSE)
    IN  (IF is_some(self.extras) /\ is_some(e.byes) THEN <<Bye(unwrap(e.byes))>> ELSE <<>>)
        \o (IF is_some(self.extras) /\ is_some(e.legbyes) THEN <<LegBye(unwrap(e.legbyes))>> ELSE <<>>)
        \o (IF is_some(self.extras) /\ is_some(e.wides) THEN <<Wide(unwrap(e.wides))>> ELSE <<>>)
        \o (IF is_some(self.extras) /\ is_some(e.penalty) THEN <<Penalty(unwrap(e.penalty))>> ELSE <<>>)
        \o (IF is_some(self.extras) /\ is_some(e.noballs) THEN <<NoBall(unwrap(e.noballs))>> ELSE <<>>)
        \o (IF is_some(self.wickets) THEN <<WicketEvent(unwrap(self.wickets))>> ELSE <<>>)
        \o (IF boundary(4) THEN <<Four>> ELSE <<>>)
        \o (IF boundary(6) THEN <<Six>> ELSE <<>>)

\* Delivery::parse.  The result is [outcome, panicked]: validate().unwrap()
\* panics on a DoubleOutcome.
Delivery_parse(self, striker, non_striker, bowler) ==
    LET outcome == BallOutcome_new(self.runs.batter, parse_events(self),
                                   striker, non_striker, bowler)
    IN  [outcome |-> outcome, panicked |-> ~validate(outcome).ok]

\* mod.rs 150-173 (and 212-235): one delivery of the record looked up, parsed
\* and scored.  The result is [innings, panicked]; the three lookups and
\* parse panic before the Innings is touched.
score_delivery(inn, ball, batting_team, bowling_team) ==
    IF \/ get_player_index(batting_team, ball.batter) = -1
       \/ get_player_index(batting_team, ball.non_striker) = -1
       \/ get_player_index(bowling_team, ball.bowler) = -1
    THEN [innings |-> inn, panicked |-> TRUE]
    ELSE the({IF parsed.panicked
              THEN [innings |-> inn, panicked |-> TRUE]
              ELSE Innings_score_ball(inn, parsed.outcome) :
                parsed \in {Delivery_parse(ball, [name |-> ball.batter],
                                           [name |-> ball.non_striker],
                                           [name |-> ball.bowler])}})

\* mod.rs 129-138 (and 191-200): the team of the record's name bats, team2
\* if the name is not team1's
batting_side(self, team1, team2) == IF self.team = team1.name THEN team1 ELSE team2
bowling_side(self, team1, team2) == IF self.team = team1.name THEN team2 ELSE team1

\* mod.rs 140-145 (and 202-207): a new Innings, its runs set to the penalty
\* runs awarded before it
opened_innings(self, batting_team, bowling_team) ==
    IF is_some(self.penalty_runs)
    THEN [Innings_new(batting_team, bowling_team) EXCEPT
            !.score.runs = unwrap_or_default(unwrap(self.penalty_runs).pre, 0)]
    ELSE Innings_new(batting_team, bowling_team)

\* mod.rs 177-182 (and 240-245): the innings is finished and the penalty runs
\* awarded after it are added
closed_innings(self, inn) ==
    [inn EXCEPT
        !.finished = TRUE,
        !.score.runs = IF is_some(self.penalty_runs)
                       THEN @ + unwrap_or_default(unwrap(self.penalty_runs).post, 0)
                       ELSE @]

\* mod.rs 149-174: the deliveries of an over; from is [innings, panicked]
RECURSIVE score_deliveries(_, _, _, _)
score_deliveries(from, deliveries, batting_team, bowling_team) ==
    the({IF deliveries = <<>> \/ st.panicked THEN st
         ELSE score_deliveries(
                score_delivery(st.innings, Head(deliveries), batting_team, bowling_team),
                Tail(deliveries), batting_team, bowling_team) :
            st \in {from}})

\* mod.rs 148-176: the overs, innings.over() after each
RECURSIVE score_overs(_, _, _, _)
score_overs(from, overs, batting_team, bowling_team) ==
    the({IF overs = <<>> \/ st.panicked THEN st
         ELSE the({IF bowled.panicked THEN bowled
                   ELSE score_overs([bowled EXCEPT !.innings = Innings_over(@)],
                                    Tail(overs), batting_team, bowling_team) :
                      bowled \in {score_deliveries(st, Head(overs).deliveries,
                                                   batting_team, bowling_team)}}) :
            st \in {from}})

\* CricsheetInnings::process_innings.  The result is [cricket_match, panicked].
process_innings(self, m) ==
    LET batting_team == batting_side(self, m.team1, m.team2)
        bowling_team == bowling_side(self, m.team1, m.team2)
    IN  the({IF st.panicked
             THEN [cricket_match |-> m, panicked |-> TRUE]
             ELSE [cricket_match |-> Match_add_innings(m, closed_innings(self, st.innings)),
                   panicked |-> FALSE] :
                st \in {score_overs(
                            [innings |-> opened_innings(self, batting_team, bowling_team),
                             panicked |-> FALSE],
                            unwrap_or_default(self.overs, <<>>),
                            batting_team, bowling_team)}})

\* mod.rs 211-237: the deliveries of an over, a clone of the Innings pushed
\* after each; from is [innings, states, panicked]
RECURSIVE snapshot_deliveries(_, _, _, _)
snapshot_deliveries(from, deliveries, batting_team, bowling_team) ==
    the({IF deliveries = <<>> \/ st.panicked THEN st
         ELSE the({snapshot_deliveries(
                      [innings |-> scored.innings,
                       states |-> IF scored.panicked THEN st.states
                                  ELSE Append(st.states, scored.innings),
                       panicked |-> scored.panicked],
                      Tail(deliveries), batting_team, bowling_team) :
                    scored \in {score_delivery(st.innings, Head(deliveries),
                                               batting_team, bowling_team)}}) :
            st \in {from}})

\* mod.rs 210-239
RECURSIVE snapshot_overs(_, _, _, _)
snapshot_overs(from, overs, batting_team, bowling_team) ==
    the({IF overs = <<>> \/ st.panicked THEN st
         ELSE the({IF bowled.panicked THEN bowled
                   ELSE snapshot_overs([bowled EXCEPT !.innings = Innings_over(@)],
                                       Tail(overs), batting_team, bowling_team) :
                      bowled \in {snapshot_deliveries(st, Head(overs).deliveries,
                                                      batting_team, bowling_team)}}) :
            st \in {from}})

\* faulty variant: the last snapshot stays the clone taken after the last delivery
last_state_kept(snapshots, inn) == snapshots

\* mod.rs 247-250: the final innings takes the place of the last snapshot
last_state_replaced(snapshots, inn) ==
    IF snapshots # <<>>
    THEN [snapshots EXCEPT ![Len(snapshots)] = inn]
    ELSE snapshots

\* CricsheetInnings::process_innings_with_states.  The result is
\* [states, panicked].
process_innings_with_states(self, team1, team2) ==
    LET batting_team == batting_side(self, team1, team2)
        bowling_team == bowling_side(self, team1, team2)
    IN  the({IF st.panicked
             THEN [states |-> <<>>, panicked |-> TRUE]
             ELSE [states |-> last_state_replaced(st.states,
                                                  closed_innings(self, st.innings)),
                   panicked |-> FALSE] :
                st \in {snapshot_overs(
                            [innings |-> opened_innings(self, batting_team, bowling_team),
                             states |-> <<>>, panicked |-> FALSE],
                            unwrap_or_default(self.overs, <<>>),
                            batting_team, bowling_team)}})

----------------------------------------------------------------------------
(* The players and the deliveries of the model *)

PLAYER1 == <<"Player", "1">>
PLAYER2 == <<"Player", "2">>
PLAYER3 == <<"Player", "3">>
PLAYER10 == <<"Player", "1", "0">>
BOWLER1 == <<"Bowler", "1">>
BOWLER2 == <<"Bowler", "2">>
NOBODY == <<"Nobody">>

TEAM_A == <<"Team A">>
TEAM_B == <<"Team B">>
TEAM_C == <<"Team C">>

BattingTeam == Team(TEAM_A, <<PLAYER1, PLAYER2, PLAYER3, PLAYER10>>)
BowlingTeam == Team(TEAM_B, <<BOWLER1, BOWLER2>>)

\* a full side of eleven, no name part of another
ElevenNames ==
    <<<<"Ames">>, <<"Bell">>, <<"Cook">>, <<"Dent">>, <<"Elms">>, <<"Ford">>,
      <<"Gray">>, <<"Hill">>, <<"Ives">>, <<"Judd">>, <<"Kent">>>>
Eleven == Team(TEAM_A, ElevenNames)

\* a BallOutcome carries three Players, of which score_ball reads the names
Named(name) == [name |-> name]

\* a delivery to PLAYER1, PLAYER2 at the other end, from BOWLER1
Plain(runs) ==
    BallOutcome(runs, None, None, None, None, None, FALSE, FALSE,
                Named(PLAYER1), Named(PLAYER2), Named(BOWLER1), None)

\* every combination of extras on 0, 1 or 2 runs
ExtrasDeliveries ==
    {[Plain(r) EXCEPT !.wide = w, !.no_ball = nb, !.byes = by,
                      !.leg_byes = lb, !.penalty = pen] :
        r \in {0, 1, 2}, w \in Opt({1}), nb \in Opt({1}), by \in Opt({2}),
        lb \in Opt({1}), pen \in Opt({5})}

\* boundaries, off the bat and off an extra
BoundaryDeliveries ==
    {[Plain(fs[1]) EXCEPT !.four = fs[2], !.six = fs[3],
                          !.wide = x[1], !.no_ball = x[2], !.byes = x[3]] :
        fs \in {<<4, TRUE, FALSE>>, <<6, FALSE, TRUE>>, <<4, TRUE, TRUE>>},
        x \in {<<None, None, None>>, <<Some(1), None, None>>,
               <<None, Some(1), None>>, <<None, None, Some(2)>>}}

CreasePairs ==
    {<<PLAYER1, PLAYER2>>, <<PLAYER2, PLAYER1>>, <<PLAYER3, PLAYER2>>,
     <<PLAYER1, PLAYER10>>, <<PLAYER10, PLAYER3>>}

\* other batters at the crease, either bowler
CreaseDeliveries ==
    {[Plain(r) EXCEPT !.on_strike = Named(c[1]), !.off_strike = Named(c[2]),
                      !.bowler = Named(bw)] :
        r \in {0, 1}, c \in CreasePairs, bw \in {BOWLER1, BOWLER2}}

\* the dismissals of a delivery to s with n at the other end
Dismissals(s, n) ==
    {<<Wicket(s, BOWLED)>>, <<Wicket(n, RUN_OUT)>>,
     <<Wicket(s, RETIRED_HURT)>>, <<Wicket(s, RETIRED_OUT)>>,
     <<Wicket(s, BOWLED), Wicket(n, RUN_OUT)>>,
     <<Wicket(n, RUN_OUT), Wicket(s, BOWLED)>>}

WicketDeliveriesTo(s, n) ==
    {[Plain(r) EXCEPT !.on_strike = Named(s), !.off_strike = Named(n),
                      !.wide = w, !.wicket = Some(ws)] :
        r \in {0, 1}, w \in Opt({1}), ws \in Dismissals(s, n)}

WicketDeliveries ==
    WicketDeliveriesTo(PLAYER1, PLAYER2) \cup WicketDeliveriesTo(PLAYER3, PLAYER10)

\* deliveries that name somebody who is in neither team
UnknownDeliveries ==
    {[Plain(0) EXCEPT !.on_strike = Named(NOBODY)],
     [Plain(1) EXCEPT !.off_strike = Named(NOBODY)],
     [Plain(1) EXCEPT !.bowler = Named(NOBODY)],
     [Plain(0) EXCEPT !.wicket = Some(<<Wicket(PLAYER2, RUN_OUT), Wicket(NOBODY, BOWLED)>>)]}

Deliveries ==
    ExtrasDeliveries \cup BoundaryDeliveries \cup CreaseDeliveries
        \cup WicketDeliveries \cup UnknownDeliveries

\* what a CurrentScore reads of a delivery: runs, extras and dismissal kinds
ScoreDismissals ==
    {<<Wicket(PLAYER1, RETIRED_HURT)>>, <<Wicket(PLAYER1, RETIRED_OUT)>>,
     <<Wicket(PLAYER1, RETIRED)>>,
     <<Wicket(PLAYER2, RUN_OUT), Wicket(PLAYER1, BOWLED)>>}

ScoreDeliveries ==
    {[b EXCEPT !.wicket = ws] : b \in ExtrasDeliveries, ws \in Opt(ScoreDismissals)}

\* the events of a delivery and the lists of them handed to BallOutcome::new
Events ==
    {Bye(2), LegBye(1), NoBall(1), Wide(1), Penalty(5), Four, Six,
     WicketEvent(<<Wicket(PLAYER1, BOWLED)>>)}

RECURSIVE ListsUpTo(_, _)
ListsUpTo(S, n) ==
    IF n = 0 THEN {<<>>}
    ELSE LET shorter == ListsUpTo(S, n - 1)
         IN  shorter \cup {Append(l, e) : l \in shorter, e \in S}

EventLists == ListsUpTo(Events, MaxEvents)
EventRuns == {0, 4, 6}

----------------------------------------------------------------------------
(* The innings of the model's Match.  As in the crate's own examples an     *)
(* innings is Innings::new(batting, bowling) with its runs and wickets_left *)
(* set; the bowling side is the other team of the match.  wickets_left is   *)
(* 10 minus the wickets lost, and score_ball stops counting nowhere, so it  *)
(* can be negative.                                                         *)

MatchTeam(name) == Team(name, <<>>)
other_team(name) == IF name = TEAM_A THEN TEAM_B ELSE TEAM_A

MatchRuns == {1, 2, 4}
MatchWicketsLeft == {-1, 0, 4}

played_innings(batting, runs, wickets_left) ==
    [Innings_new(MatchTeam(batting), MatchTeam(other_team(batting)))
        EXCEPT !.score.runs = runs,
               !.score.wickets_left = wickets_left,
               !.score.wickets_lost = WICKETS - wickets_left,
               !.finished = TRUE]

MatchInnings ==
    {played_innings(t, r, w) : t \in {TEAM_A, TEAM_B}, r \in MatchRuns,
                               w \in MatchWicketsLeft}

\* fewer kinds of innings, one of them batted by a team that is not in the match
ApiInnings ==
    {played_innings(TEAM_A, 1, 0), played_innings(TEAM_A, 2, 0),
     played_innings(TEAM_B, 1, 0), played_innings(TEAM_C, 1, 0)}

DLS == <<"D/L">>
VJD == <<"VJD">>
Methods == {Some(DLS)}
SetResults == {Team1Won(Award, None)}
MethodResults == {Team2Won(Runs(5), None), Tie(Some(VJD)), Draw, NoResult}
Statuses == {"Abandoned"}

----------------------------------------------------------------------------
(* The state machines *)

InitWith(inn, m) ==
    /\ score = CurrentScore_new
    /\ tally = [calls |-> 0, bat_runs |-> 0, wide_runs |-> 0, penalties |-> 0,
                kinds |-> <<>>]
    /\ innings = inn
    /\ call = "new"
    /\ ball_outcome = None
    /\ before = inn
    /\ panicked = FALSE
    /\ calls = 0
    /\ history = [legal |-> 0, penalties |-> 0, bowlers_known |-> TRUE]
    /\ cricket_match = m
    /\ match_call = "new"
    /\ match_before = m
    /\ match_repeat = FALSE
    /\ returned = None
    /\ match_arg = None
    /\ added = <<>>
    /\ new_outcome = None
    /\ validation = None
    /\ states = None
    /\ processed = [process_innings |-> "no", with_states |-> "no"]

InitProgram ==
    /\ InitWith(Innings_new(BattingTeam, BowlingTeam),
                Match_new(MatchTeam(TEAM_A), MatchTeam(TEAM_B)))
    /\ cricsheet_innings = CricsheetInnings(TEAM_A, None, None)

Init == InitProgram /\ ball_events = <<>>

\* the kinds of the dismissals of a delivery, in list order
kinds_of(b) ==
    IF is_some(b.wicket)
    THEN [i \in 1..Len(unwrap(b.wicket)) |-> unwrap(b.wicket)[i].kind]
    ELSE <<>>

\* CurrentScore::score_ball(b)
ScoreBall(b) ==
    /\ tally.calls < MaxScoreBalls
    /\ score' = CurrentScore_score_ball(score, b)
    /\ tally' = [calls |-> tally.calls + 1,
                 bat_runs |-> tally.bat_runs + b.runs,
                 wide_runs |-> tally.wide_runs + (IF is_some(b.wide) THEN b.runs ELSE 0),
                 penalties |-> tally.penalties
                               + (IF is_some(b.penalty) THEN unwrap(b.penalty) ELSE 0),
                 kinds |-> tally.kinds \o kinds_of(b)]
    /\ UNCHANGED <<innings_vars, match_vars, ball_vars, cricsheet_vars>>

\* CurrentScore::over()
ScoreOver ==
    /\ score.over < MaxOvers
    /\ score' = CurrentScore_over(score)
    /\ UNCHANGED <<tally, innings_vars, match_vars, ball_vars, cricsheet_vars>>

NextScore == (\E b \in ScoreDeliveries : ScoreBall(b)) \/ ScoreOver

SpecScore == Init /\ [][NextScore]_vars

\* the history of the score_ball calls, one call further
recorded(h, self, b) ==
    [legal |-> h.legal + (IF is_none(b.wide) /\ is_none(b.no_ball) THEN 1 ELSE 0),
     penalties |-> h.penalties + (IF is_some(b.penalty) THEN unwrap(b.penalty) ELSE 0),
     bowlers_known |-> h.bowlers_known
                        /\ get_player_index(self.bowling_team, b.bowler.name) # -1]

\* Innings::score_ball(b); nothing is called on an Innings after a panic
InningsScoreBall(b) ==
    /\ ~panicked
    /\ calls < MaxBalls
    /\ LET after == Innings_score_ball(innings, b)
       IN  /\ innings' = after.innings
           /\ panicked' = after.panicked
    /\ call' = "score_ball"
    /\ ball_outcome' = Some(b)
    /\ before' = innings
    /\ calls' = calls + 1
    /\ history' = recorded(history, innings, b)
    /\ UNCHANGED <<score_vars, match_vars, ball_vars, cricsheet_vars>>

\* Innings::over()
InningsOver ==
    /\ ~panicked
    /\ innings.score.over < MaxOvers
    /\ innings' = Innings_over(innings)
    /\ call' = "over"
    /\ ball_outcome' = None
    /\ before' = innings
    /\ UNCHANGED <<panicked, calls, history, score_vars, match_vars, ball_vars, cricsheet_vars>>

Next == (\E b \in Deliveries : InningsScoreBall(b)) \/ InningsOver

Spec == Init /\ [][Next]_vars

\* An innings played to its end by a full side.  The caller names the two
\* batters the Innings has at the crease; a delivery bowls the striker, runs
\* out the non-striker on a single, or is a dot ball.
CollapseDeliveries(self) ==
    LET s == self.batting_team.players[self.on_strike + 1].name
        n == self.batting_team.players[self.off_strike + 1].name
        to == [Plain(0) EXCEPT !.on_strike = Named(s), !.off_strike = Named(n)]
    IN  {[to EXCEPT !.wicket = Some(<<Wicket(s, BOWLED)>>)],
         [to EXCEPT !.runs = 1, !.wicket = Some(<<Wicket(n, RUN_OUT)>>)]}

\* Innings::score_ball(b) on the full side
CollapseScoreBall(b) ==
    /\ ~panicked
    /\ calls < MaxCollapseBalls
    /\ LET after == Innings_score_ball(innings, b)
       IN  /\ innings' = after.innings
           /\ panicked' = after.panicked
    /\ call' = "score_ball"
    /\ ball_outcome' = Some(b)
    /\ before' = innings
    /\ calls' = calls + 1
    /\ history' = recorded(history, innings, b)
    /\ UNCHANGED <<score_vars, match_vars, ball_vars, cricsheet_vars>>

\* the caller ends the innings: `innings.finished = true` on the public field
InningsFinish ==
    /\ ~panicked
    /\ ~innings.finished
    /\ innings' = [innings EXCEPT !.finished = TRUE]
    /\ call' = "finish"
    /\ ball_outcome' = None
    /\ before' = innings
    /\ UNCHANGED <<panicked, calls, history, score_vars, match_vars, ball_vars, cricsheet_vars>>

InitAllOut ==
    /\ InitWith(Innings_new(Eleven, BowlingTeam),
                Match_new(MatchTeam(TEAM_A), MatchTeam(TEAM_B)))
    /\ ball_events = <<>>
    /\ cricsheet_innings = CricsheetInnings(TEAM_A, None, None)

NextAllOut ==
    \/ /\ innings.on_strike < Len(innings.batting_team.players)
       /\ innings.off_strike < Len(innings.batting_team.players)
       /\ \E b \in CollapseDeliveries(innings) : CollapseScoreBall(b)
    \/ InningsOver
    \/ InningsFinish

SpecAllOut == InitAllOut /\ [][NextAllOut]_vars

\* BallOutcome::new(r, ball_events, ..)
BallNew(r) ==
    /\ is_none(new_outcome)
    /\ new_outcome' = Some(BallOutcome_new(r, ball_events, Named(PLAYER1),
                                           Named(PLAYER2), Named(BOWLER1)))
    /\ UNCHANGED <<ball_events, validation, score_vars, innings_vars, match_vars, cricsheet_vars>>

\* validate() on the BallOutcome built
BallValidate ==
    /\ is_some(new_outcome)
    /\ is_none(validation)
    /\ validation' = Some(validate(unwrap(new_outcome)))
    /\ UNCHANGED <<ball_events, new_outcome, score_vars, innings_vars, match_vars, cricsheet_vars>>

InitBall == InitProgram /\ ball_events \in EventLists

NextBall == (\E r \in EventRuns : BallNew(r)) \/ BallValidate

SpecBall == InitBall /\ [][NextBall]_vars

\* what every call on the Match records of itself
Called(op, arg) ==
    /\ match_call' = op
    /\ match_arg' = arg
    /\ match_before' = cricket_match
    /\ match_repeat' = (match_call = op)
    /\ added' = IF op = "add_innings" THEN Append(added, unwrap(arg)) ELSE added

\* Match::add_innings(inn)
AddInnings(inn) ==
    /\ Len(cricket_match.innings) < MaxInnings
    /\ cricket_match' = Match_add_innings(cricket_match, inn)
    /\ Called("add_innings", Some(inn))
    /\ returned' = None
    /\ UNCHANGED <<score_vars, innings_vars, ball_vars, cricsheet_vars>>

\* Match::add_innings(inn), among the other operations
AddApiInnings(inn) ==
    /\ Len(cricket_match.innings) < MaxApiInnings
    /\ cricket_match' = Match_add_innings(cricket_match, inn)
    /\ Called("add_innings", Some(inn))
    /\ returned' = None
    /\ UNCHANGED <<score_vars, innings_vars, ball_vars, cricsheet_vars>>

\* Match::calculate_result()
CalculateResult ==
    /\ cricket_match' = Match_calculate_result(cricket_match)
    /\ Called("calculate_result", None)
    /\ returned' = None
    /\ UNCHANGED <<score_vars, innings_vars, ball_vars, cricsheet_vars>>

\* Match::is_innings_victory()
IsInningsVictory ==
    /\ returned' = Some(is_innings_victory(cricket_match))
    /\ Called("is_innings_victory", None)
    /\ UNCHANGED <<cricket_match, score_vars, innings_vars, ball_vars, cricsheet_vars>>

\* Match::set_result(r)
SetResult(r) ==
    /\ cricket_match' = Match_set_result(cricket_match, r)
    /\ Called("set_result", Some(r))
    /\ returned' = None
    /\ UNCHANGED <<score_vars, innings_vars, ball_vars, cricsheet_vars>>

\* Match::set_result_with_method(r, m)
SetResultWithMethod(r, m) ==
    /\ cricket_match' = Match_set_result_with_method(cricket_match, r, m)
    /\ Called("set_result_with_method", Some(<<r, m>>))
    /\ returned' = None
    /\ UNCHANGED <<score_vars, innings_vars, ball_vars, cricsheet_vars>>

\* Match::set_status(s)
SetStatus(s) ==
    /\ cricket_match' = Match_set_status(cricket_match, s)
    /\ Called("set_status", Some(s))
    /\ returned' = None
    /\ UNCHANGED <<score_vars, innings_vars, ball_vars, cricsheet_vars>>

\* innings are recorded and the result is computed from them
NextMatch ==
    \/ \E inn \in MatchInnings : AddInnings(inn)
    \/ CalculateResult

SpecMatch == Init /\ [][NextMatch]_vars

\* every operation of a Match, on fewer kinds of innings
NextMatchApi ==
    \/ \E inn \in ApiInnings : AddApiInnings(inn)
    \/ CalculateResult
    \/ IsInningsVictory
    \/ \E r \in SetResults : SetResult(r)
    \/ \E r \in MethodResults, m \in Methods : SetResultWithMethod(r, m)
    \/ \E s \in Statuses : SetStatus(s)

SpecMatchApi == Init /\ [][NextMatchApi]_vars

\* The deliveries of a record: a single, a wide and the striker bowled.
RecordDeliveries ==
    {Delivery(PLAYER1, BOWLER1, PLAYER2, None, 1, None),
     Delivery(PLAYER2, BOWLER1, PLAYER1, Some(Extras(None, None, None, None, Some(1))), 0, None),
     Delivery(PLAYER1, BOWLER2, PLAYER2, None, 0, Some(<<Wicket(PLAYER1, BOWLED)>>))}

RecordOvers ==
    {Over(ds) : ds \in ListsUpTo(RecordDeliveries, MaxOverDeliveries)}

RecordPenalties ==
    {None, Some(PenaltyRuns(Some(5), None)), Some(PenaltyRuns(None, Some(5)))}

\* the records of the side that bats: no overs at all, or up to
\* MaxRecordOvers overs; and two records that name the other side, whose
\* roster has neither batter of the deliveries
Records ==
    {CricsheetInnings(TEAM_A, os, pen) :
        os \in {None} \cup {Some(l) : l \in ListsUpTo(RecordOvers, MaxRecordOvers)},
        pen \in RecordPenalties}
    \cup {CricsheetInnings(TEAM_B, os, None) :
            os \in {None, Some(<<Over(<<Delivery(PLAYER1, BOWLER1, PLAYER2, None, 1, None)>>)>>)}}

\* process_innings(&mut cricket_match) on the record
ProcessInnings ==
    /\ processed.process_innings = "no"
    /\ LET done == process_innings(cricsheet_innings, cricket_match)
       IN  /\ cricket_match' = done.cricket_match
           /\ processed' = [processed EXCEPT !.process_innings =
                                IF done.panicked THEN "panicked" ELSE "returned"]
    /\ Called("process_innings", Some(cricsheet_innings))
    /\ returned' = None
    /\ UNCHANGED <<cricsheet_innings, states, score_vars, innings_vars, ball_vars>>

\* process_innings_with_states(team1, team2) on the record, with the teams
\* of the Match
ProcessInningsWithStates ==
    /\ processed.with_states = "no"
    /\ LET done == process_innings_with_states(cricsheet_innings,
                                               cricket_match.team1, cricket_match.team2)
       IN  /\ states' = IF done.panicked THEN None ELSE Some(done.states)
           /\ processed' = [processed EXCEPT !.with_states =
                                IF done.panicked THEN "panicked" ELSE "returned"]
    /\ UNCHANGED <<cricsheet_innings, score_vars, innings_vars, match_vars, ball_vars>>

InitCricsheet ==
    /\ InitWith(Innings_new(BattingTeam, BowlingTeam),
                Match_new(BattingTeam, BowlingTeam))
    /\ ball_events = <<>>
    /\ cricsheet_innings \in Records

NextCricsheet == ProcessInnings \/ ProcessInningsWithStates

SpecCricsheet == InitCricsheet /\ [][NextCricsheet]_vars

----------------------------------------------------------------------------
(* Properties of CurrentScore, under SpecScore *)

\* C1, as stated: the total is the runs off the bat of all deliveries plus
\* the four extras plus the penalty runs.
C1_RunsIdentity ==
    score.runs = tally.bat_runs + score.byes + score.leg_byes + score.wides
                 + score.no_balls + tally.penalties

\* C1, amended: the runs of a wide delivery are booked as wides and not a
\* second time as runs off the bat; the total is the runs of the deliveries
\* that were not wides, plus the four extras, plus the penalty runs.
C1_RunsIdentityAmended ==
    score.runs = (tally.bat_runs - tally.wide_runs) + score.byes + score.leg_byes
                 + score.wides + score.no_balls + tally.penalties

\* runs were taken on a wide, and another delivery was scored
C1_Witness == tally.calls = 2 /\ tally.wide_runs = 1 /\ tally.bat_runs = 3

\* C2: wickets_left + wickets_lost = 10 after any deliveries and overs,
\* whatever the kinds and the number of the dismissals.
C2_WicketsSum == score.wickets_left + score.wickets_lost = 10

\* two dismissals on one delivery and a retirement that costs a wicket on another
C2_Witness == score.wickets_lost = 3 /\ score.over = 1

\* the dismissals scored so far whose kind is "retired out" or has no "retired" in it
LostWickets ==
    Cardinality({i \in 1..Len(tally.kinds) :
                    \/ tally.kinds[i] = <<"retired", " ", "out">>
                    \/ ~contains(tally.kinds[i], <<"retired">>)})

\* C11: a dismissal is a lost wicket (wickets_lost + 1, wickets_left - 1)
\* exactly when its kind is "retired out" or does not contain "retired"; a
\* "retired hurt" dismissal changes neither count.
C11_CountedDismissals ==
    /\ score.wickets_lost = LostWickets
    /\ score.wickets_left = 10 - LostWickets

\* a "retired hurt", then a "retired out": one wicket lost
C11_Witness ==
    /\ tally.kinds = <<RETIRED_HURT, RETIRED_OUT>>
    /\ score.wickets_lost = 1
    /\ score.wickets_left = 9

----------------------------------------------------------------------------
(* Properties of Match::calculate_result, under SpecMatch *)

Calculated == match_call = "calculate_result" /\ cricket_match.innings # <<>>
TheResult == unwrap(cricket_match.result)
BothBatted == batting_teams(cricket_match) = {TEAM_A, TEAM_B}
LastInnings == cricket_match.innings[Len(cricket_match.innings)]
TotalOf(team_name) ==
    IF team_name = cricket_match.team1.name THEN team1_total_runs(cricket_match)
    ELSE team2_total_runs(cricket_match)
BattedLast == LastInnings.batting_team.name
LastSideTrails == TotalOf(BattedLast) < TotalOf(other_team(BattedLast))
DrawRuleApplies == LastSideTrails /\ LastInnings.score.wickets_left > 0

\* C3: both teams have batted and the draw rule does not apply: a tie exactly
\* when the totals are equal, else the team with the larger total has won.
C3_HigherTotalWins ==
    (Calculated /\ BothBatted /\ ~DrawRuleApplies) =>
        /\ TheResult.result = "Tie"
             <=> team1_total_runs(cricket_match) = team2_total_runs(cricket_match)
        /\ TheResult.result = "Team1Won"
             <=> team1_total_runs(cricket_match) > team2_total_runs(cricket_match)
        /\ TheResult.result = "Team2Won"
             <=> team2_total_runs(cricket_match) > team1_total_runs(cricket_match)

HasWinner == Calculated /\ TheResult.result \in {"Team1Won", "Team2Won"}
Winner ==
    IF TheResult.result = "Team1Won" THEN cricket_match.team1.name
    ELSE cricket_match.team2.name
RunsMargin == Runs(TotalOf(Winner) - TotalOf(other_team(Winner)))

\* C4: the margin of a win is in runs for an innings victory, else the
\* wickets_left of the last innings if the winner batted last, else in runs.
C4_Margin ==
    HasWinner =>
        TheResult.margin =
            IF is_innings_victory(cricket_match) THEN RunsMargin
            ELSE IF Winner = BattedLast THEN Wickets(LastInnings.score.wickets_left)
            ELSE RunsMargin

\* C24: every margin calculate_result produces is the true, non-negative
\* quantity: Runs(n) has n = winner's total - loser's total > 0, Wickets(w) has
\* w = the wickets_left of the last innings with 0 <= w <= 10; no conversion
\* to the unsigned margin wraps or truncates.
C24_TrueMargin ==
    HasWinner =>
        /\ TheResult.margin.margin = "Runs" =>
                /\ TheResult.margin.n = TotalOf(Winner) - TotalOf(other_team(Winner))
                /\ TheResult.margin.n > 0
        /\ TheResult.margin.margin = "Wickets" =>
                /\ TheResult.margin.n = LastInnings.score.wickets_left
                /\ TheResult.margin.n >= 0 /\ TheResult.margin.n <= 10

\* the number of innings in which the team of that name batted
TimesBatted(name) ==
    Cardinality({k \in 1..Len(cricket_match.innings) :
                    cricket_match.innings[k].batting_team.name = name})

\* C33: whenever calculate_result awards a win under the innings-victory rule
\* (is_innings_victory() holds of the innings list), the winner batted in
\* strictly fewer innings than the loser.
C33_InningsWinner ==
    (HasWinner /\ is_innings_victory(cricket_match)) =>
        TimesBatted(Winner) < TimesBatted(other_team(Winner))

\* C5: the side batting last is behind: a draw if it has wickets in hand,
\* however often each side batted, and no draw if it has none.
C5_DrawRule ==
    (Calculated /\ BothBatted /\ LastSideTrails) =>
        /\ LastInnings.score.wickets_left > 0 => TheResult = Draw
        /\ LastInnings.score.wickets_left = 0 => TheResult # Draw

\* a draw where one side batted twice and the other once
C5_Witness ==
    /\ Calculated /\ BothBatted /\ DrawRuleApplies
    /\ Len(cricket_match.innings) = 3
    /\ TheResult = Draw

\* C15: with at least one innings recorded and every recorded innings batted
\* by the same team, calculate_result yields Draw, whatever the runs and
\* wickets of those innings.
C15_OneSideBatted ==
    (Calculated /\ \A k \in 1..Len(cricket_match.innings) :
                      cricket_match.innings[k].batting_team.name
                          = cricket_match.innings[1].batting_team.name) =>
        cricket_match.result = Some(Draw)

\* two innings of the same team, the second with wickets lost and runs made
C15_Witness ==
    /\ Calculated
    /\ Len(cricket_match.innings) = 2
    /\ \A k \in 1..2 : cricket_match.innings[k].batting_team.name = TEAM_B
    /\ cricket_match.innings[2].score.runs = 4
    /\ cricket_match.innings[2].score.wickets_left = 0
    /\ cricket_match.result = Some(Draw)

\* C16: calculate_result on a match with at least one innings ends with status
\* Completed and the result set to one of Draw, Tie, Team1Won(margin) or
\* Team2Won(margin): never unset, never NoResult.
C16_Total ==
    Calculated =>
        /\ cricket_match.status = "Completed"
        /\ is_some(cricket_match.result)
        /\ \/ TheResult = Draw
           \/ TheResult.result = "Tie"
           \/ /\ TheResult.result \in {"Team1Won", "Team2Won"}
              /\ TheResult.margin.margin \in {"Runs", "Wickets"}

\* three innings and a win of the second team
C16_Witness ==
    /\ Calculated
    /\ cricket_match.status = "Completed"
    /\ Len(cricket_match.innings) = 3
    /\ TheResult.result = "Team2Won"

----------------------------------------------------------------------------
(* Properties of Innings, under Spec *)

\* the last call was a score_ball that returned
Returned == call = "score_ball" /\ ~panicked
TheBall == unwrap(ball_outcome)
StrikerIndex == get_player_index(before.batting_team, TheBall.on_strike.name)
NonStrikerIndex == get_player_index(before.batting_team, TheBall.off_strike.name)
StrikerBefore == before.batting_team.players[StrikerIndex + 1]
StrikerAfter == innings.batting_team.players[StrikerIndex + 1]
NoDismissal == is_none(TheBall.wicket)
WideOrNoBall == is_some(TheBall.wide) \/ is_some(TheBall.no_ball)
ByeOrLegBye == is_some(TheBall.byes) \/ is_some(TheBall.leg_byes)
Flag(f) == IF f THEN 1 ELSE 0

\* the values on_strike and off_strike may hold, right or wrong
StrikeIndices == 0..5

\* C6: the Innings that score_ball leaves is the one it leaves whatever
\* on_strike and off_strike held when it was called; after even runs and no
\* dismissal they are the roster positions of the striker and the non-striker.
C6_TrustsBallOutcome ==
    Returned =>
        /\ \A i, j \in StrikeIndices :
              Innings_score_ball([before EXCEPT !.on_strike = i, !.off_strike = j],
                                 TheBall)
                  = [innings |-> innings, panicked |-> FALSE]
        /\ (TheBall.runs % 2 = 0 /\ NoDismissal) =>
              /\ innings.on_strike = StrikerIndex
              /\ innings.off_strike = NonStrikerIndex

\* a delivery to batters the tracked indices did not point at
C6_Witness ==
    /\ Returned /\ TheBall.runs % 2 = 0 /\ NoDismissal
    /\ before.on_strike # StrikerIndex /\ before.off_strike # NonStrikerIndex
    /\ before.on_strike # NonStrikerIndex

\* C7: the striker of the BallOutcome gets a ball faced unless the delivery is
\* a wide or a no-ball, and the runs and the boundary unless it is a wide, a
\* no-ball, a bye or a leg-bye.
C7_StrikerCredit ==
    Returned =>
        /\ StrikerAfter.balls_faced =
              StrikerBefore.balls_faced + Flag(~WideOrNoBall)
        /\ StrikerAfter.runs =
              StrikerBefore.runs
              + (IF ~WideOrNoBall /\ ~ByeOrLegBye THEN TheBall.runs ELSE 0)
        /\ StrikerAfter.fours =
              StrikerBefore.fours + Flag(~WideOrNoBall /\ ~ByeOrLegBye /\ TheBall.four)
        /\ StrikerAfter.sixes =
              StrikerBefore.sixes + Flag(~WideOrNoBall /\ ~ByeOrLegBye /\ TheBall.six)

\* byes on a delivery with runs of its own, to a striker with runs already
C7_Witness ==
    /\ Returned /\ is_some(TheBall.byes) /\ ~WideOrNoBall /\ TheBall.runs = 2
    /\ StrikerBefore.runs > 0

C9_Over ==
    call = "over" =>
        /\ innings.on_strike = before.off_strike
        /\ innings.off_strike = before.on_strike
        /\ innings.score = [before.score EXCEPT !.over = @ + 1, !.ball = 0]
        /\ innings.batting_team = before.batting_team
        /\ innings.bowling_team = before.bowling_team
        /\ innings.finished = before.finished

\* an over called after two balls, the last of them with odd runs and a dismissal
C9_Witness ==
    /\ call = "over" /\ before.score.ball = 2 /\ before.score.runs % 2 = 1
    /\ before.score.wickets_lost > 0

\* C10: a wide or a no-ball leaves score.ball and every batter's balls_faced
\* as they were; any other delivery adds one to score.ball and to the
\* striker's balls_faced.
C10_LegalDeliveries ==
    Returned =>
        IF WideOrNoBall
        THEN /\ innings.score.ball = before.score.ball
             /\ \A k \in 1..Len(innings.batting_team.players) :
                    innings.batting_team.players[k].balls_faced
                        = before.batting_team.players[k].balls_faced
        ELSE /\ innings.score.ball = before.score.ball + 1
             /\ StrikerAfter.balls_faced = StrikerBefore.balls_faced + 1

\* a no-ball after a legal delivery
C10_Witness ==
    /\ Returned /\ is_some(TheBall.no_ball) /\ is_none(TheBall.wide)
    /\ before.score.ball = 1 /\ StrikerBefore.balls_faced = 1

\* the one dismissal of the last delivery, the two batters it names and where
\* they stand once the runs are run
OneDismissal == is_some(TheBall.wicket) /\ Len(unwrap(TheBall.wicket)) = 1
TheWicket == unwrap(TheBall.wicket)[1]
DismissedAtCrease ==
    TheWicket.player_out \in {TheBall.on_strike.name, TheBall.off_strike.name}
OutIndex == get_player_index(before.batting_team, TheWicket.player_out)
RunsAreOdd == TheBall.runs % 2 = 1
FacingIndex == IF RunsAreOdd THEN NonStrikerIndex ELSE StrikerIndex
OtherEndIndex == IF RunsAreOdd THEN StrikerIndex ELSE NonStrikerIndex
NextIn == max(StrikerIndex, NonStrikerIndex) + 1

\* C12: when a delivery dismisses exactly one of the two batters at the
\* crease, that player is marked out with the dismissal kind, that batter's
\* crease slot gets roster index max(on_strike, off_strike) + 1 and the other
\* slot keeps the surviving batter.
C12_Dismissal ==
    (Returned /\ OneDismissal /\ DismissedAtCrease) =>
        /\ innings.batting_team.players[OutIndex + 1].out
        /\ innings.batting_team.players[OutIndex + 1].dismissal = Some(TheWicket.kind)
        /\ innings.on_strike = IF FacingIndex = OutIndex THEN NextIn ELSE FacingIndex
        /\ innings.off_strike = IF OtherEndIndex = OutIndex THEN NextIn ELSE OtherEndIndex

\* the bowler of the last delivery, where the bowling roster has one of that name
BowlerIndex == get_player_index(before.bowling_team, TheBall.bowler.name)
BowlerBefore == before.bowling_team.players[BowlerIndex + 1]
BowlerAfter == innings.bowling_team.players[BowlerIndex + 1]

\* C20: on every delivery bowled by a bowler of the bowling roster, the
\* bowler's runs_conceded grows by the full run total of the delivery, as
\* score.runs does.
C20_RunsConceded ==
    (Returned /\ BowlerIndex # -1) =>
        BowlerAfter.runs_conceded - BowlerBefore.runs_conceded
            = innings.score.runs - before.score.runs

----------------------------------------------------------------------------
(* Properties of BallOutcome::new and validate, under SpecBall *)

Validated == is_some(validation)
TheOutcome == unwrap(new_outcome)
TheVerdict == unwrap(validation)
FourAndSix == TheOutcome.four /\ TheOutcome.six
ByesAndLegByes == is_some(TheOutcome.byes) /\ is_some(TheOutcome.leg_byes)
HasEvent(name) == \E i \in 1..Len(ball_events) : ball_events[i].event = name
DoubleInEvents ==
    \/ HasEvent("Four") /\ HasEvent("Six")
    \/ HasEvent("Bye") /\ HasEvent("LegBye")

\* C13, as stated: validate() fails with DoubleOutcome("Four","Six") when four
\* and six are both set, fails with DoubleOutcome("Bye","Leg Bye") when byes
\* and leg-byes are both present, and succeeds otherwise; new(..) then
\* validate() fails exactly when the events hold both Four and Six or both a
\* Bye and a LegBye.
C13_Validate ==
    Validated =>
        /\ FourAndSix => TheVerdict = DoubleOutcome("Four", "Six")
        /\ ByesAndLegByes => TheVerdict = DoubleOutcome("Bye", "Leg Bye")
        /\ (~FourAndSix /\ ~ByesAndLegByes) => TheVerdict = Ok
        /\ (TheVerdict # Ok) <=> DoubleInEvents

\* C13, amended: the four-and-six test comes first, so the error is
\* DoubleOutcome("Bye","Leg Bye") when byes and leg-byes are both present and
\* four and six are not both set.
C13_ValidateInOrder ==
    Validated =>
        /\ FourAndSix => TheVerdict = DoubleOutcome("Four", "Six")
        /\ (ByesAndLegByes /\ ~FourAndSix) => TheVerdict = DoubleOutcome("Bye", "Leg Bye")
        /\ (~FourAndSix /\ ~ByesAndLegByes) => TheVerdict = Ok
        /\ (TheVerdict # Ok) <=> DoubleInEvents

\* a four and a six with byes and leg-byes: the first test decides
C13_Witness ==
    /\ Validated
    /\ FourAndSix /\ ByesAndLegByes
    /\ TheVerdict = DoubleOutcome("Four", "Six")

----------------------------------------------------------------------------
(* Properties of Match, every operation called, under SpecMatchApi *)

TeamNames == {TEAM_A, TEAM_B, TEAM_C}
InningsOf(name) ==
    {k \in 1..Len(cricket_match.innings) :
        cricket_match.innings[k].batting_team.name = name}
HaveBatted == {name \in TeamNames : InningsOf(name) # {}}
BattedEquallyOften ==
    \A a, b \in HaveBatted : Cardinality(InningsOf(a)) = Cardinality(InningsOf(b))
AskedInningsVictory == match_call = "is_innings_victory"

\* C14: is_innings_victory() is true exactly when at least three innings are
\* recorded, exactly two teams have batted and the two batted in a different
\* number of innings; it is false for fewer than three innings and whenever
\* both teams batted equally often.
C14_InningsVictory ==
    AskedInningsVictory =>
        /\ unwrap(returned) =
              (/\ Len(cricket_match.innings) >= 3
               /\ Cardinality(HaveBatted) = 2
               /\ ~BattedEquallyOften)
        /\ Len(cricket_match.innings) < 3 => unwrap(returned) = FALSE
        /\ BattedEquallyOften => unwrap(returned) = FALSE

\* three innings, one side has batted twice: an innings victory
C14_Witness ==
    /\ AskedInningsVictory
    /\ Len(cricket_match.innings) = 3
    /\ Cardinality(InningsOf(TEAM_A)) = 1
    /\ Cardinality(InningsOf(TEAM_B)) = 2
    /\ returned = Some(TRUE)

\* the last call was calculate_result, on whatever match
Recalculated == match_call = "calculate_result"
HadMethod ==
    /\ is_some(match_before.result)
    /\ unwrap(match_before.result).result \in {"Team1Won", "Team2Won", "Tie"}
    /\ is_some(unwrap(match_before.result).method)

\* C17: a result that carries a method label is left unchanged by a later
\* calculate_result.
C17_KeepsLabelledResult ==
    (Recalculated /\ HadMethod) => cricket_match.result = match_before.result

\* a new match with the teams and the innings of cricket_match
SameMatchAnew ==
    [Match_new(cricket_match.team1, cricket_match.team2)
        EXCEPT !.innings = cricket_match.innings]

\* C18: calculate_result called again on the same innings leaves the result
\* and the status the first call left, and two matches with the same team
\* names and the same innings get the same result.
C18_Idempotent ==
    /\ (Recalculated /\ match_repeat) =>
            /\ cricket_match.result = match_before.result
            /\ cricket_match.status = match_before.status
    /\ Calculated =>
            cricket_match.result = Match_calculate_result(SameMatchAnew).result

\* a second call in a row on two innings that the first team won
C18_Witness ==
    /\ Recalculated /\ match_repeat
    /\ Len(cricket_match.innings) = 2
    /\ is_some(cricket_match.result)
    /\ TheResult.result = "Team1Won"
    /\ match_before = cricket_match

\* C19: calculate_result on a match without innings changes nothing: result
\* and status stay as they were (unset and NotStarted on a new match).
C19_NoInnings ==
    (Recalculated /\ match_before.innings = <<>>) =>
        /\ cricket_match = match_before
        /\ (match_before.result = None /\ match_before.status = "NotStarted") =>
               (cricket_match.result = None /\ cricket_match.status = "NotStarted")

\* called on the new match
C19_Witness ==
    /\ Recalculated
    /\ cricket_match.innings = <<>>
    /\ cricket_match.result = None
    /\ cricket_match.status = "NotStarted"

----------------------------------------------------------------------------
(* More properties of Innings::score_ball, under Spec *)

ScoredBall == call = "score_ball"
UnknownBatter == StrikerIndex = -1 \/ NonStrikerIndex = -1
UnknownBowler == BowlerIndex = -1

\* C21: score_ball panics, and never returns normally, whenever the striker
\* or the non-striker is not in the batting roster or the bowler is not in
\* the bowling roster.
C21_FailsFast ==
    (ScoredBall /\ (UnknownBatter \/ UnknownBowler)) => panicked

\* the runs of an optional extra, and all the runs of the last delivery
Amount(o) == IF is_some(o) THEN unwrap(o) ELSE 0
TotalRuns ==
    TheBall.runs + Amount(TheBall.wide) + Amount(TheBall.no_ball)
        + Amount(TheBall.byes) + Amount(TheBall.leg_byes) + Amount(TheBall.penalty)

\* C25: the parity of the total runs of the delivery, bat runs and all extras,
\* decides the rotation: without a dismissal the batters swap ends exactly
\* when that total is odd.
C25_TotalRunsSwap ==
    (Returned /\ NoDismissal) =>
        IF TotalRuns % 2 = 1
        THEN innings.off_strike = StrikerIndex /\ innings.on_strike = NonStrikerIndex
        ELSE innings.on_strike = StrikerIndex /\ innings.off_strike = NonStrikerIndex

\* C26: one CurrentScore.score_ball adds outcome.runs + wide + no_ball + byes
\* + leg_byes + penalty to runs, wide + outcome.runs to wides when a wide is
\* present, their own counts to no_balls, byes and leg_byes, penalty runs to
\* no extras field, and leaves the over counter alone.
C26_ScoreBallDeltas ==
    ScoredBall =>
        /\ innings.score.runs = before.score.runs + TotalRuns
        /\ innings.score.wides =
              before.score.wides
              + (IF is_some(TheBall.wide) THEN unwrap(TheBall.wide) + TheBall.runs ELSE 0)
        /\ innings.score.no_balls = before.score.no_balls + Amount(TheBall.no_ball)
        /\ innings.score.byes = before.score.byes + Amount(TheBall.byes)
        /\ innings.score.leg_byes = before.score.leg_byes + Amount(TheBall.leg_byes)
        /\ innings.score.over = before.score.over

\* a wide with two runs and penalty runs, in the second over
C26_Witness ==
    /\ ScoredBall
    /\ TheBall.runs = 2 /\ TheBall.wide = Some(1) /\ TheBall.penalty = Some(5)
    /\ before.score.over = 1
    /\ innings.score.wides = before.score.wides + 3
    /\ innings.score.runs >= before.score.runs + 8

\* the dismissals listed on the last delivery
TheWickets == IF is_some(TheBall.wicket) THEN unwrap(TheBall.wicket) ELSE <<>>

\* C27: for a bowler of the bowling roster, score_ball adds 1 to balls_bowled
\* exactly when the delivery is neither a wide nor a no-ball, adds the number
\* of dismissals listed, of any kind, to wickets_taken, adds 1 to the bowler's
\* wides / no_balls when a wide / no-ball is present, and never changes
\* maidens.
C27_BowlerFigures ==
    (Returned /\ ~UnknownBowler) =>
        /\ BowlerAfter.balls_bowled = BowlerBefore.balls_bowled + Flag(~WideOrNoBall)
        /\ BowlerAfter.wickets_taken = BowlerBefore.wickets_taken + Len(TheWickets)
        /\ BowlerAfter.wides = BowlerBefore.wides + Flag(is_some(TheBall.wide))
        /\ BowlerAfter.no_balls = BowlerBefore.no_balls + Flag(is_some(TheBall.no_ball))
        /\ BowlerAfter.maidens = BowlerBefore.maidens

\* a retired-hurt batter on a wide, to a bowler who has bowled before
C27_Witness ==
    /\ Returned /\ ~UnknownBowler
    /\ BowlerBefore.balls_bowled = 1
    /\ Len(TheWickets) = 1 /\ TheWickets[1].kind = RETIRED_HURT
    /\ is_some(TheBall.wide)
    /\ BowlerAfter.wickets_taken = BowlerBefore.wickets_taken + 1
    /\ BowlerAfter.balls_bowled = 1

\* C28: the odd-run rotation comes before the substitution: on odd bat runs
\* with the named striker dismissed, the incoming batter takes off_strike and
\* the surviving non-striker ends on strike; with the named non-striker
\* dismissed, the incoming batter ends on strike.
C28_RotationFirst ==
    (Returned /\ OneDismissal /\ RunsAreOdd) =>
        /\ TheWicket.player_out = TheBall.on_strike.name =>
                /\ innings.off_strike = NextIn
                /\ innings.on_strike = NonStrikerIndex
        /\ TheWicket.player_out = TheBall.off_strike.name =>
                /\ innings.on_strike = NextIn
                /\ innings.off_strike = StrikerIndex

\* both batters of the last delivery are on its list of dismissals
BothDismissed ==
    /\ Len(TheWickets) = 2
    /\ {TheWickets[1].player_out, TheWickets[2].player_out}
           = {TheBall.on_strike.name, TheBall.off_strike.name}
    /\ TheBall.on_strike.name # TheBall.off_strike.name
IndexOf(name) == get_player_index(before.batting_team, name)
SlotAfterRuns(name) ==
    IF (name = TheBall.on_strike.name) = RunsAreOdd THEN "off_strike" ELSE "on_strike"
NewIndexAt(slot) == IF slot = "on_strike" THEN innings.on_strike ELSE innings.off_strike

\* C29: when one delivery dismisses both batters at the crease, the
\* dismissals are handled in list order: both players are marked out with
\* their own kinds, CurrentScore counts both wickets, and on_strike and
\* off_strike hold the next two roster indices, old max + 1 in the slot of
\* the batter listed first and old max + 2 in the other.
C29_BothDismissed ==
    (Returned /\ BothDismissed) =>
        /\ \A k \in 1..2 :
              LET p == innings.batting_team.players[IndexOf(TheWickets[k].player_out) + 1]
              IN  p.out /\ p.dismissal = Some(TheWickets[k].kind)
        /\ innings.score.wickets_lost = before.score.wickets_lost + 2
        /\ innings.score.wickets_left = before.score.wickets_left - 2
        /\ NewIndexAt(SlotAfterRuns(TheWickets[1].player_out)) = NextIn
        /\ NewIndexAt(SlotAfterRuns(TheWickets[2].player_out)) = NextIn + 1

\* the roster positions score_ball newly marked out, and those the dismissals name
MarkedOut ==
    {i \in 1..Len(innings.batting_team.players) :
        innings.batting_team.players[i].out /\ ~before.batting_team.players[i].out}
NamedOut == {IndexOf(TheWickets[k].player_out) + 1 : k \in 1..Len(TheWickets)}

\* C30: for every dismissal of a scored delivery the player marked out is the
\* roster member that player_out names, one of the two batters at the crease,
\* and no other roster member is marked out, also when one roster name is a
\* substring of another.
C30_MarksNamedPlayer ==
    Returned =>
        /\ MarkedOut \subseteq NamedOut
        /\ \A i \in NamedOut : innings.batting_team.players[i].out
        /\ \A k \in 1..Len(TheWickets) :
              TheWickets[k].player_out \in {TheBall.on_strike.name, TheBall.off_strike.name}

\* the players of both teams of an Innings, batting roster first
AllPlayers(inn) == inn.batting_team.players \o inn.bowling_team.players

\* C34: in every state reached from Innings::new by score_ball and over
\* calls, each player's dismissal is set exactly when the player is out, and
\* a player who was out before a call is out after it.
C34_OutAndDismissal ==
    /\ \A i \in 1..Len(AllPlayers(innings)) :
          is_some(AllPlayers(innings)[i].dismissal) <=> AllPlayers(innings)[i].out
    /\ \A i \in 1..Len(AllPlayers(before)) :
          AllPlayers(before)[i].out => AllPlayers(innings)[i].out

C34_Witness ==
    /\ call \in {"score_ball", "over"}
    /\ \E i \in 1..Len(AllPlayers(before)) :
          /\ AllPlayers(before)[i].out
          /\ AllPlayers(innings)[i].out
          /\ is_some(AllPlayers(innings)[i].dismissal)
    /\ \E i \in 1..Len(AllPlayers(innings)) :
          ~AllPlayers(innings)[i].out /\ is_none(AllPlayers(innings)[i].dismissal)

\* C36: score_ball and over calls that each name two different batters of
\* the batting roster never leave the two crease slots on one player, also
\* after one or two dismissals on a delivery.
C36_TwoAtTheCrease == innings.on_strike # innings.off_strike

C36_Witness ==
    /\ Returned
    /\ Len(TheWickets) = 2
    /\ innings.on_strike # innings.off_strike
    /\ {innings.on_strike, innings.off_strike} = {NextIn, NextIn + 1}

\* C37: on_strike and off_strike are positions of the batting roster, each
\* less than the roster size, also after the dismissal that leaves no
\* batter to come in.
C37_CreaseInRoster ==
    /\ innings.on_strike < Len(innings.batting_team.players)
    /\ innings.off_strike < Len(innings.batting_team.players)

\* sums over the rosters of an Innings
BallsFaced(inn) ==
    SumSeq([i \in 1..Len(inn.batting_team.players) |-> inn.batting_team.players[i].balls_faced])
BallsBowled(inn) ==
    SumSeq([i \in 1..Len(inn.bowling_team.players) |-> inn.bowling_team.players[i].balls_bowled])
BattersRuns(inn) ==
    SumSeq([i \in 1..Len(inn.batting_team.players) |-> inn.batting_team.players[i].runs])
RecordedExtras(inn) ==
    inn.score.byes + inn.score.leg_byes + inn.score.wides + inn.score.no_balls

\* C38: after score_ball and over calls whose bowlers are all in the bowling
\* roster, the balls faced by the batting team, the balls bowled by the
\* bowling team and the number of scored deliveries that were neither wide nor
\* no-ball are the same number.
C38_BallsBalance ==
    (~panicked /\ history.bowlers_known) =>
        /\ BallsFaced(innings) = history.legal
        /\ BallsBowled(innings) = history.legal

C38_Witness ==
    /\ ~panicked
    /\ history.bowlers_known
    /\ calls = 2
    /\ history.legal = 1
    /\ BallsFaced(innings) = 1
    /\ BallsBowled(innings) = 1
    /\ innings.batting_team.players[1].balls_faced = 0
    /\ innings.bowling_team.players[1].balls_bowled = 0

\* C39: after any score_ball calls the team total is the runs credited to the
\* batting team's players plus the recorded extras (byes, leg byes, wides,
\* no-balls) plus all penalty runs.
C39_ScorecardIdentity ==
    ~panicked =>
        innings.score.runs =
            BattersRuns(innings) + RecordedExtras(innings) + history.penalties

\* the three groups of fields of a Player
BattingFigures(p) == <<p.runs, p.balls_faced, p.fours, p.sixes>>
BowlingFigures(p) ==
    <<p.balls_bowled, p.runs_conceded, p.wickets_taken, p.maidens, p.wides, p.no_balls>>
OutFields(p) == <<p.out, p.dismissal>>

\* the names the dismissals of the delivery give
NamesOut == {TheWickets[k].player_out : k \in 1..Len(TheWickets)}

\* only the striker's batting figures moved, only the bowler's bowling figures
BattingFrame ==
    \A i \in 1..Len(AllPlayers(before)) :
        AllPlayers(before)[i].name # TheBall.on_strike.name =>
            BattingFigures(AllPlayers(innings)[i]) = BattingFigures(AllPlayers(before)[i])
BowlingFrame ==
    \A i \in 1..Len(AllPlayers(before)) :
        AllPlayers(before)[i].name # TheBall.bowler.name =>
            BowlingFigures(AllPlayers(innings)[i]) = BowlingFigures(AllPlayers(before)[i])
OutFrame ==
    \A i \in 1..Len(AllPlayers(before)) :
        AllPlayers(before)[i].name \notin NamesOut =>
            OutFields(AllPlayers(innings)[i]) = OutFields(AllPlayers(before)[i])

\* C40: a score_ball call changes the batting figures of the named striker
\* only, the bowling figures of the named bowler only, and the out and
\* dismissal fields of the players its dismissals name only; the teams held
\* by the Match are left as they were.
C40_Frame ==
    Returned =>
        /\ BattingFrame
        /\ BowlingFrame
        /\ OutFrame
        /\ cricket_match.team1 = MatchTeam(TEAM_A)
        /\ cricket_match.team2 = MatchTeam(TEAM_B)

----------------------------------------------------------------------------
(* The end of an innings, under SpecAllOut *)

\* C31: the score_ball that brings wickets_lost to 10 and wickets_left to 0
\* leaves finished true, though the caller has not set it.
C31_AllOutFinishes ==
    (/\ Returned
     /\ before.score.wickets_lost < WICKETS
     /\ innings.score.wickets_lost = WICKETS
     /\ innings.score.wickets_left = 0) => innings.finished

\* C32: score_ball and over leave the finished flag as it was; once true it
\* stays true.
C32_FinishedOneWay ==
    /\ call \in {"score_ball", "over"} => innings.finished = before.finished
    /\ before.finished => innings.finished

C32_Witness ==
    /\ call \in {"score_ball", "over"}
    /\ before.finished
    /\ innings.finished
    /\ innings.score # before.score

----------------------------------------------------------------------------
(* The two readers of a CricsheetInnings record, under SpecCricsheet *)

WithStatesReturned == processed.with_states = "returned"
BothReturned == WithStatesReturned /\ processed.process_innings = "returned"
Snapshots == unwrap(states)
Appended == cricket_match.innings[Len(cricket_match.innings)]

\* the deliveries of the record, over after over
RECURSIVE Flattened(_)
Flattened(overs) ==
    IF overs = <<>> THEN <<>> ELSE Head(overs).deliveries \o Flattened(Tail(overs))
RecordBalls ==
    IF is_some(cricsheet_innings.overs) THEN Flattened(unwrap(cricsheet_innings.overs))
    ELSE <<>>

\* the penalty runs awarded before and after the innings
PenaltyBefore ==
    IF is_some(cricsheet_innings.penalty_runs)
          /\ is_some(unwrap(cricsheet_innings.penalty_runs).pre)
    THEN unwrap(unwrap(cricsheet_innings.penalty_runs).pre) ELSE 0
PenaltyAfter ==
    IF is_some(cricsheet_innings.penalty_runs)
          /\ is_some(unwrap(cricsheet_innings.penalty_runs).post)
    THEN unwrap(unwrap(cricsheet_innings.penalty_runs).post) ELSE 0

\* the runs and the wickets a delivery of the record is worth
ExtraRuns(d) ==
    IF is_some(d.extras)
    THEN LET e == unwrap(d.extras)
             worth(o) == IF is_some(o) THEN unwrap(o) ELSE 0
         IN  worth(e.byes) + worth(e.legbyes) + worth(e.noballs)
                + worth(e.penalty) + worth(e.wides)
    ELSE 0
DeliveryRuns(d) == d.runs.batter + ExtraRuns(d)
DeliveryWickets(d) == IF is_some(d.wickets) THEN Len(unwrap(d.wickets)) ELSE 0

\* the score after the first k deliveries of the record
RunsAfter(k) ==
    PenaltyBefore + SumSeq([i \in 1..k |-> DeliveryRuns(RecordBalls[i])])
WicketsLeftAfter(k) ==
    WICKETS - SumSeq([i \in 1..k |-> DeliveryWickets(RecordBalls[i])])

\* the last snapshot and the innings process_innings appended agree
LastAgrees ==
    (BothReturned /\ Snapshots # <<>>) =>
        LET last == Snapshots[Len(Snapshots)]
        IN  /\ last.score.runs = Appended.score.runs
            /\ last.score.wickets_left = Appended.score.wickets_left
            /\ last.finished
            /\ Appended.finished

\* C35: process_innings_with_states returns one snapshot per delivery of the
\* record, the k-th with the score after the first k deliveries, and the last
\* one agrees with the innings process_innings appends for the same record in
\* runs, wickets_left and finished, which is true.
C35_Snapshots ==
    /\ WithStatesReturned =>
          /\ Len(Snapshots) = Len(RecordBalls)
          /\ \A k \in 1..Len(Snapshots) :
                /\ Snapshots[k].score.runs = RunsAfter(k)
                /\ Snapshots[k].score.wickets_left = WicketsLeftAfter(k)
    /\ LastAgrees

\* C35 as the code has it: the snapshots before the last carry the score after
\* their deliveries; the last one is the closed innings, the very innings
\* process_innings appends, with the penalty runs awarded after the innings
\* in its total; a record without deliveries has no snapshot.
C35_SnapshotsAmended ==
    /\ WithStatesReturned =>
          /\ Len(Snapshots) = Len(RecordBalls)
          /\ \A k \in 1..Len(Snapshots) :
                /\ Snapshots[k].score.runs =
                      RunsAfter(k) + (IF k = Len(Snapshots) THEN PenaltyAfter ELSE 0)
                /\ Snapshots[k].score.wickets_left = WicketsLeftAfter(k)
                /\ Snapshots[k].finished <=> k = Len(Snapshots)
    /\ LastAgrees
    /\ (BothReturned /\ Snapshots # <<>>) => Snapshots[Len(Snapshots)] = Appended

C35_Witness ==
    /\ BothReturned
    /\ Len(RecordBalls) = 3
    /\ Len(Snapshots) = 3
    /\ PenaltyAfter = 5
    /\ Snapshots[2].score.runs = RunsAfter(2)
    /\ Snapshots[3].score.runs = RunsAfter(3) + 5
    /\ Snapshots[3].score.wickets_left = 9
    /\ ~Snapshots[2].finished
    /\ Snapshots[3] = Appended
    /\ Appended.finished

----------------------------------------------------------------------------
(* More properties of Match, under SpecMatchApi *)

TheArgument == unwrap(match_arg)

\* what set_result_with_method(r, m) is said to store
WithMethod(r, m) ==
    IF r.result \in {"Team1Won", "Team2Won"}
    THEN [result |-> r.result, margin |-> r.margin, method |-> m]
    ELSE IF r.result = "Tie"
    THEN [result |-> "Tie", method |-> m]
    ELSE r

\* C22: set_result(r) stores exactly r and sets status Completed, whatever the
\* result and status before, an Award margin included (Award is neither
\* Runs(0) nor Wickets(0)); set_result_with_method(r, m) does the same after
\* putting m in place of the method of a Team1Won, Team2Won or Tie result,
\* margin kept, and stores Draw and NoResult unchanged.
C22_SetResult ==
    /\ match_call = "set_result" =>
            /\ cricket_match.result = Some(TheArgument)
            /\ cricket_match.status = "Completed"
    /\ match_call = "set_result_with_method" =>
            /\ cricket_match.result = Some(WithMethod(TheArgument[1], TheArgument[2]))
            /\ cricket_match.status = "Completed"
    /\ Award # Runs(0) /\ Award # Wickets(0)

\* a tie that came with one method is stored with another, over a status set
\* by hand
C22_Witness ==
    /\ match_call = "set_result_with_method"
    /\ TheArgument = <<Tie(Some(VJD)), Some(DLS)>>
    /\ match_before.status = "Abandoned"
    /\ cricket_match.result = Some(Tie(Some(DLS)))
    /\ cricket_match.status = "Completed"

\* C23: add_innings appends the innings at the end of the list, keeps the
\* innings before it in order and content and changes neither result nor
\* status; calculate_result, set_result and set_status never modify the list:
\* it always is the sequence of the add_innings arguments in call order.
C23_InningsList ==
    /\ match_call = "add_innings" =>
            /\ cricket_match.innings = Append(match_before.innings, TheArgument)
            /\ cricket_match.result = match_before.result
            /\ cricket_match.status = match_before.status
    /\ match_call \in {"calculate_result", "set_result", "set_result_with_method",
                        "set_status", "is_innings_victory"} =>
            cricket_match.innings = match_before.innings
    /\ cricket_match.innings = added

\* different innings added around a calculate_result and a set_status
C23_Witness ==
    /\ match_call = "add_innings"
    /\ Len(added) = 3
    /\ added[1] # added[2] /\ added[2] # added[3]
    /\ cricket_match.innings = added
    /\ cricket_match.status = "Abandoned"
    /\ is_some(cricket_match.result)

====
